---- MODULE Spec2Model ----
(***************************************************************************)
(* mustex: generators of LaTeX/TikZ source for music-theory diagrams.      *)
(*                                                                         *)
(* Every generator is one synchronous call.  A call validates (part of)    *)
(* its input, opens ./output/<file_name>.tex for writing, writes lines and *)
(* returns, or raises somewhere on the way.  The model keeps, for the call *)
(* that ran last, its arguments, whether the output file was opened, the   *)
(* lines written to it up to the return or the raise, and the error.       *)
(*                                                                         *)
(* A written line is a record: field t names the LaTeX command of the      *)
(* line, the other fields are the values the f-string interpolates.        *)
(* Python floats are modelled as exact fractions <<numerator, denominator>>*)
(***************************************************************************)
EXTENDS Integers, Sequences, FiniteSets, TLC

VARIABLES pc, op, args, opened, out, err, ret

vars == <<pc, op, args, opened, out, err, ret>>

(***************************************************************************)
(* Bounds of the input domains.                                            *)
(***************************************************************************)
MaxN == 4
MaxLen == 3
MaxN2 == 3
MaxLen2 == 1
MaxOct == 2
MaxDivs == 4
MaxUnit == 3
MaxTag == 3
MaxCircles == 3

(***************************************************************************)
(* utils.py                                                                *)
(***************************************************************************)
pitch_name_list ==
    << "C", "C$\\sharp$", "D", "E$\\flat$", "E", "F", "F$\\sharp$", "G",
       "A$\\flat$", "A", "B$\\flat$", "B" >>

(***************************************************************************)
(* Python values shared by the generators.                                 *)
(***************************************************************************)
\* range(n) as a list: 0, 1, ..., n-1 (empty when n <= 0)
Range(n) == [j \in 1..n |-> j - 1]

\* `x in ks` for a list ks
In(x, ks) == \E j \in 1..Len(ks) : ks[j] = x

\* lists over S of length at most m
ListsUpTo(S, m) == UNION {[1..l -> S] : l \in 0..m}

\* equality of two fractions <<num, den>> with positive denominators
RatEq(a, b) == a[1] * b[2] = b[1] * a[2]

\* a - b for fractions
RatSub(a, b) == <<a[1] * b[2] - b[1] * a[2], a[2] * b[2]>>

NoError == [kind |-> "none"]

IndexValueError(k, n) ==
    [kind |-> "ValueError", msg |-> "Highlighted index", k |-> k, n |-> n]

LabelValueError(n) ==
    [kind |-> "ValueError", msg |-> "pitch class labels", n |-> n]

TagsValueError == [kind |-> "ValueError", msg |-> "Tags must be in increasing order"]

IndexError == [kind |-> "IndexError"]

UnboundLocalError == [kind |-> "UnboundLocalError"]

(***************************************************************************)
(* cycles.py                                                               *)
(***************************************************************************)
\* the angle with the indices running counterclockwise from the top
AngleCCW(i, n) == <<((360 + 90) * n + i * 360) % (360 * n), n>>

\* (360 + 90 - ((i / n) * 360)) % 360, as a fraction with denominator n
Angle(i, n) == <<((360 + 90) * n - i * 360) % (360 * n), n>>

\* the compass bucket used when label_angles is False
Compass(i, n) ==
    IF i = 0 THEN "above"
    ELSE IF 2 * i < n THEN "right"
    ELSE IF 2 * i = n THEN "below"
    ELSE "left"

NodeLabel(i, n, denominator_in_label, tonality_not_count) ==
    IF tonality_not_count THEN [kind |-> "pitch", name |-> pitch_name_list[i + 1]]
    ELSE IF denominator_in_label THEN [kind |-> "fraction", i |-> i, n |-> n]
    ELSE [kind |-> "count", i |-> i]

NodeString(i, ks, n, label_angles, denominator_in_label, tonality_not_count, radius_string) ==
    [t |-> "node",
     i |-> i,
     angle |-> Angle(i, n),
     radius |-> radius_string,
     colour |-> IF In(i, ks) THEN "black" ELSE "white",
     label_position |-> IF label_angles
                        THEN [kind |-> "angle", angle |-> Angle(i, n)]
                        ELSE [kind |-> "compass", side |-> Compass(i, n)],
     label |-> NodeLabel(i, n, denominator_in_label, tonality_not_count)]

node_strings(ks, n, label_angles, denominator_in_label, tonality_not_count, radius_string) ==
    IF tonality_not_count /\ n # 12
    THEN [err |-> LabelValueError(n), strings |-> <<>>]
    ELSE [err |-> NoError,
          strings |-> [j \in 1..n |->
                         NodeString(j - 1, ks, n, label_angles,
                                    denominator_in_label, tonality_not_count,
                                    radius_string)]]

\* a bound check that forgets the negative indices
InRangeNoNegative(k, n) == k < n

\* `k in range(n)`
InRange(k, n) == k >= 0 /\ k < n

\* the loop `for k in ks: if k not in range(n): raise ValueError(...)`
RECURSIVE HighlightCheckFrom(_, _, _)
HighlightCheckFrom(ks, n, j) ==
    IF j > Len(ks) THEN NoError
    ELSE IF ~InRange(ks[j], n) THEN IndexValueError(ks[j], n)
    ELSE HighlightCheckFrom(ks, n, j + 1)

\* `if ks is None: ks = range(n) else: <loop>`; ks is [none, v]
HighlightCheck(ks, n) ==
    IF ks.none THEN NoError ELSE HighlightCheckFrom(ks.v, n, 1)

Highlighted(ks, n) == IF ks.none THEN Range(n) ELSE ks.v

RECURSIVE FloorLog2(_)
FloorLog2(n) == IF n < 2 THEN 0 ELSE 1 + FloorLog2(n \div 2)

\* int(math.log2(n) - 1) for n >= 1
Scale(n) == FloorLog2(n) - 1

CyclePreamble ==
    << [t |-> "documentclass", options |-> "tikz,border=10pt"],
       [t |-> "usepackage", package |-> "tikz"],
       [t |-> "usetikzlibrary"],
       [t |-> "begin_document"] >>

Circle(radius_string, radius) ==
    << [t |-> "def", name |-> radius_string, value |-> radius],
       [t |-> "node_origin"],
       [t |-> "draw_circle", radius |-> radius_string] >>

DrawSolid(a, b) == [t |-> "draw_solid", from |-> a, to |-> b]

\* lines 148-151: the segments of adjacent mode, then the `Last one`
AdjacentLines(ks) ==
    LET w == [j \in 1..(Len(ks) - 1) |-> DrawSolid(ks[j], ks[j + 1])]
    IN  IF Len(ks) = 0
        THEN [err |-> IndexError, w |-> w]
        ELSE [err |-> NoError, w |-> Append(w, DrawSolid(ks[Len(ks)], 0))]

\* pairs of positions i <= j, as combinations_with_replacement would give
RECURSIVE CombinationsWithSelf(_, _, _)
CombinationsWithSelf(ks, i, j) ==
    IF i > Len(ks) THEN <<>>
    ELSE IF j > Len(ks) THEN CombinationsWithSelf(ks, i + 1, i + 1)
    ELSE <<DrawSolid(ks[i], ks[j])>> \o CombinationsWithSelf(ks, i, j + 1)

\* itertools.combinations(ks, 2): pairs of positions i < j, lexicographic
RECURSIVE CombinationsFrom(_, _, _)
CombinationsFrom(ks, i, j) ==
    IF i >= Len(ks) THEN <<>>
    ELSE IF j > Len(ks) THEN CombinationsFrom(ks, i + 1, i + 2)
    ELSE <<DrawSolid(ks[i], ks[j])>> \o CombinationsFrom(ks, i, j + 1)

AllPairLines(ks) == [err |-> NoError, w |-> CombinationsFrom(ks, 1, 2)]

single_cycle_example(ks0, n, radius, lines, adjacent_not_all, tonality_not_count, include_preamble) ==
    LET chk == HighlightCheck(ks0, n)
        ks  == Highlighted(ks0, n)
        w1  == IF include_preamble THEN CyclePreamble ELSE <<>>
        w2  == w1 \o <<[t |-> "begin_tikzpicture", scale |-> Scale(n)]>>
                  \o Circle("\\radius", radius)
        ns  == node_strings(ks, n, TRUE, FALSE, tonality_not_count, "\\radius")
        w3  == w2 \o ns.strings
        seg == IF ~lines THEN [err |-> NoError, w |-> <<>>]
               ELSE IF adjacent_not_all THEN AdjacentLines(ks)
               ELSE AllPairLines(ks)
        w4  == w3 \o seg.w
        w5  == w4 \o <<[t |-> "end_tikzpicture"]>>
                  \o (IF include_preamble THEN <<[t |-> "end_document"]>> ELSE <<>>)
    IN  IF chk.kind # "none" THEN [opened |-> FALSE, out |-> <<>>, err |-> chk]
        ELSE IF ns.err.kind # "none" THEN [opened |-> TRUE, out |-> w2, err |-> ns.err]
        ELSE IF seg.err.kind # "none" THEN [opened |-> TRUE, out |-> w4, err |-> seg.err]
        ELSE [opened |-> TRUE, out |-> w5, err |-> NoError]

two_circles(inner_k, inner_n, inner_radius, outer_k, outer_n, outer_radius, include_preamble) ==
    LET chk_in  == HighlightCheck(inner_k, inner_n)
        chk_out == HighlightCheck(outer_k, outer_n)
        w1 == IF include_preamble THEN CyclePreamble ELSE <<>>
        w2 == w1 \o <<[t |-> "begin_tikzpicture", scale |-> 2]>>
                 \o Circle("\\innerradius", inner_radius)
        ni == node_strings(Highlighted(inner_k, inner_n), inner_n, TRUE, FALSE,
                           FALSE, "\\innerradius")
        w3 == w2 \o ni.strings \o Circle("\\outerradius", outer_radius)
        no == node_strings(Highlighted(outer_k, outer_n), outer_n, TRUE, FALSE,
                           FALSE, "\\outerradius")
        w4 == w3 \o no.strings \o <<[t |-> "end_tikzpicture"]>>
                 \o (IF include_preamble THEN <<[t |-> "end_document"]>> ELSE <<>>)
    IN  IF chk_in.kind # "none" THEN [opened |-> FALSE, out |-> <<>>, err |-> chk_in]
        ELSE IF chk_out.kind # "none"
             THEN [opened |-> FALSE, out |-> <<>>, err |-> chk_out]
        ELSE [opened |-> TRUE, out |-> w4, err |-> NoError]

(***************************************************************************)
(* linear_table.py                                                         *)
(***************************************************************************)
\* range(a, b) as a list
RangeFrom(a, b) == [j \in 1..(b - a) |-> a + j - 1]

\* the list or string s * k (empty when k <= 0)
RECURSIVE Repeat(_, _)
Repeat(s, k) == IF k <= 0 THEN <<>> ELSE s \o Repeat(s, k - 1)

\* str(x) of an int: a sign and the decimal digits, most significant first
RECURSIVE Digits(_)
Digits(x) == IF x < 10 THEN <<x>> ELSE Append(Digits(x \div 10), x % 10)

Str(x) == [neg |-> x < 0, digits |-> Digits(IF x < 0 THEN -x ELSE x)]

StrList(xs) == [j \in 1..Len(xs) |-> Str(xs[j])]

\* " & ".join(cells): the cells with a separator between neighbours
RECURSIVE Join(_)
Join(cells) ==
    IF Len(cells) = 0 THEN <<>>
    ELSE IF Len(cells) = 1 THEN <<[s |-> "cell", v |-> cells[1]]>>
    ELSE <<[s |-> "cell", v |-> cells[1]], [s |-> "sep"]>> \o Join(Tail(cells))

\* a column specification without the trailing column
ColumnSpecNarrow(octaves) ==
    <<"c">> \o Repeat(<<"|">> \o [j \in 1..12 |-> "c"], octaves) \o <<"|">>

\* "c" + ("|cccccccccccc" * octaves) + "|c", as a list of characters
ColumnSpec(octaves) ==
    <<"c">> \o Repeat(<<"|">> \o [j \in 1..12 |-> "c"], octaves) \o <<"|", "c">>

TablePreamble ==
    << [t |-> "documentclass", options |-> ""],
       [t |-> "begin_document"],
       [t |-> "begin_table"],
       [t |-> "centering"] >>

TableRow(open_ended, label, toks) ==
    [t |-> "row", label |-> IF open_ended THEN "" ELSE label, toks |-> toks]

RowBreak == [t |-> "row_break"]

midi_pitch_pc_table(start_octave, end_octave, include_preamble, open_ended) ==
    LET ints    == RangeFrom(start_octave * 12, end_octave * 12)
        d       == IF open_ended THEN <<"\\dots">> ELSE <<"">>
        midis   == Join(d \o StrList(ints) \o d)
        octaves == end_octave - start_octave
        pcs     == Join(d \o StrList(Repeat(Range(12), octaves)) \o d)
        names   == Join(d \o Repeat(pitch_name_list, octaves) \o d)
        ccs     == ColumnSpec(octaves)
        w1 == IF include_preamble
              THEN TablePreamble \o <<[t |-> "caption"]>>
              ELSE <<>>
        w2 == w1 \o << [t |-> "begin_tabular", ccs |-> ccs],
                       TableRow(open_ended, "MIDI", midis), RowBreak,
                       TableRow(open_ended, "Name", names), RowBreak,
                       TableRow(open_ended, "Class", pcs),
                       [t |-> "end_tabular"] >>
    IN  [opened |-> TRUE, out |-> w2, err |-> NoError]

\* a row whose right edges divide by n + 1
GridRowWide(n, length_unit) ==
    [j \in 1..n |->
        [t |-> "filldraw",
         x0 |-> <<length_unit * (j - 1), n>>, y0 |-> n,
         x1 |-> <<j * length_unit, n + 1>>, y1 |-> n + 1,
         label |-> [num |-> 1, den |-> n]]] \o <<RowBreak>>

\* one pass of `for i in range(n)` (lines 104-110) and the row break of line 112
GridRow(n, length_unit) ==
    [j \in 1..n |->
        [t |-> "filldraw",
         x0 |-> <<length_unit * (j - 1), n>>, y0 |-> n,
         x1 |-> <<j * length_unit, n>>, y1 |-> n + 1,
         label |-> [num |-> 1, den |-> n]]] \o <<RowBreak>>

\* `for n in range(n_divs)`, from row n on
RECURSIVE GridRows(_, _, _)
GridRows(n, n_divs, length_unit) ==
    IF n >= n_divs THEN <<>>
    ELSE GridRow(n, length_unit) \o GridRows(n + 1, n_divs, length_unit)

grid_tatum(n_divs, length_unit, include_preamble) ==
    LET w1 == IF include_preamble THEN TablePreamble ELSE <<>>
        w2 == w1 \o <<[t |-> "begin_tikzpicture"]>>
                 \o GridRows(0, n_divs, length_unit)
                 \o <<[t |-> "end_tikzpicture"]>>
    IN  [opened |-> TRUE, out |-> w2, err |-> NoError]

(***************************************************************************)
(* schema.py                                                               *)
(***************************************************************************)
Tags(circles) == [j \in 1..Len(circles) |-> circles[j].tag]

\* sorted(xs): insert x into the sorted list s after the elements <= x
RECURSIVE Insert(_, _)
Insert(x, s) ==
    IF Len(s) = 0 THEN <<x>>
    ELSE IF s[Len(s)] <= x THEN Append(s, x)
    ELSE Append(Insert(x, SubSeq(s, 1, Len(s) - 1)), s[Len(s)])

\* sorted() that also drops repeated values, as sorted(set(xs)) would
RECURSIVE SortedStrict(_)
SortedStrict(xs) ==
    IF Len(xs) = 0 THEN <<>>
    ELSE LET s == SortedStrict(SubSeq(xs, 1, Len(xs) - 1))
         IN  IF In(xs[Len(xs)], s) THEN s ELSE Insert(xs[Len(xs)], s)

RECURSIVE Sorted(_)
Sorted(xs) ==
    IF Len(xs) = 0 THEN <<>>
    ELSE Insert(xs[Len(xs)], Sorted(SubSeq(xs, 1, Len(xs) - 1)))

schema_example(root_name, circles, include_preamble) ==
    LET tags == Tags(circles)
        m    == Len(circles)
        w1 == IF include_preamble THEN CyclePreamble ELSE <<>>
        w2 == w1 \o << [t |-> "begin_tikzpicture"],
                       [t |-> "node_bottom", name |-> root_name] >>
        w3 == w2 \o [j \in 1..m |->
                       [t |-> "node_top", i |-> j, y |-> j, name |-> circles[j].name]]
        \* i + 1.5 with the last i of the loop above: (2 * (m - 1) + 3) / 2
        w4 == w3 \o << [t |-> "draw_rectangle", top |-> <<2 * (m - 1) + 3, 2>>],
                       [t |-> "comment"] >>
                 \o [j \in 1..m |->
                       [t |-> "draw_arrow",
                        direction |-> IF (j - 1) % 2 = 0 THEN "left" ELSE "right",
                        bend_angle |-> 20 * (j - 1),
                        tag |-> circles[j].tag,
                        to |-> j]]
                 \o <<[t |-> "end_tikzpicture"]>>
                 \o (IF include_preamble THEN <<[t |-> "end_document"]>> ELSE <<>>)
    IN  IF tags # Sorted(tags)
        THEN [opened |-> FALSE, out |-> <<>>, err |-> TagsValueError]
        ELSE IF m = 0
        THEN [opened |-> TRUE, out |-> w3, err |-> UnboundLocalError]
        ELSE [opened |-> TRUE, out |-> w4, err |-> NoError]

(***************************************************************************)
(* The calls.                                                              *)
(***************************************************************************)
\* the values a caller passes as a highlight list: None or a list of ints
HighlightLists(n, len) ==
    {[none |-> TRUE, v |-> <<>>]}
       \cup {[none |-> FALSE, v |-> l] : l \in ListsUpTo(-1..n, len)}

CycleSizes == (1..MaxN) \cup {12}

Radius == 1

Octaves == (-1)..MaxOct

UpperNames == {"D", "E"}

Init ==
    /\ pc = "idle"
    /\ op = "none"
    /\ args = [none |-> TRUE]
    /\ opened = FALSE
    /\ out = <<>>
    /\ err = NoError
    /\ ret = <<>>

Finish(name, a, r) ==
    /\ pc' = "done"
    /\ op' = name
    /\ args' = a
    /\ opened' = r.opened
    /\ out' = r.out
    /\ err' = r.err
    /\ ret' = <<>>

CallNodeStrings ==
    /\ pc = "idle"
    /\ \E n \in CycleSizes, ks \in ListsUpTo(-1..MaxN, MaxLen),
       label_angles \in BOOLEAN, denominator_in_label \in BOOLEAN,
       tonality_not_count \in BOOLEAN :
        LET r == node_strings(ks, n, label_angles, denominator_in_label,
                              tonality_not_count, "\\radius")
        IN  /\ pc' = "done"
            /\ op' = "node_strings"
            /\ args' = [ks |-> ks, n |-> n, label_angles |-> label_angles,
                        denominator_in_label |-> denominator_in_label,
                        tonality_not_count |-> tonality_not_count]
            /\ err' = r.err
            /\ ret' = r.strings
            /\ UNCHANGED <<opened, out>>

CallSingleCycleExample ==
    /\ pc = "idle"
    /\ \E n \in CycleSizes, ks \in HighlightLists(MaxN, MaxLen),
       lines \in BOOLEAN, adjacent_not_all \in BOOLEAN,
       tonality_not_count \in BOOLEAN, include_preamble \in BOOLEAN :
        Finish("single_cycle_example",
               [ks |-> ks, n |-> n, lines |-> lines,
                adjacent_not_all |-> adjacent_not_all,
                tonality_not_count |-> tonality_not_count,
                include_preamble |-> include_preamble],
               single_cycle_example(ks, n, Radius, lines, adjacent_not_all,
                                    tonality_not_count, include_preamble))

CallTwoCircles ==
    /\ pc = "idle"
    /\ \E inner_n \in 1..MaxN2, outer_n \in 1..MaxN2,
       inner_k \in HighlightLists(MaxN2, MaxLen2),
       outer_k \in HighlightLists(MaxN2, MaxLen2),
       include_preamble \in BOOLEAN :
        Finish("two_circles",
               [inner_k |-> inner_k, inner_n |-> inner_n,
                outer_k |-> outer_k, outer_n |-> outer_n,
                include_preamble |-> include_preamble],
               two_circles(inner_k, inner_n, Radius, outer_k, outer_n, Radius,
                           include_preamble))

CallMidiPitchPcTable ==
    /\ pc = "idle"
    /\ \E start_octave \in Octaves, end_octave \in Octaves,
          include_preamble \in BOOLEAN, open_ended \in BOOLEAN :
        Finish("midi_pitch_pc_table",
               [start_octave |-> start_octave, end_octave |-> end_octave,
                include_preamble |-> include_preamble, open_ended |-> open_ended],
               midi_pitch_pc_table(start_octave, end_octave, include_preamble,
                                   open_ended))

CallGridTatum ==
    /\ pc = "idle"
    /\ \E n_divs \in 0..MaxDivs, length_unit \in 1..MaxUnit,
          include_preamble \in BOOLEAN :
        Finish("grid_tatum",
               [n_divs |-> n_divs, length_unit |-> length_unit,
                include_preamble |-> include_preamble],
               grid_tatum(n_divs, length_unit, include_preamble))

CallSchemaExample ==
    /\ pc = "idle"
    /\ \E circles \in ListsUpTo([name : UpperNames, tag : 1..MaxTag], MaxCircles),
          include_preamble \in BOOLEAN :
        Finish("schema_example",
               [root_name |-> "C", circles |-> circles,
                include_preamble |-> include_preamble],
               schema_example("C", circles, include_preamble))

\* the call has returned or raised; the next call starts from scratch
Return ==
    /\ pc = "done"
    /\ pc' = "idle"
    /\ op' = "none"
    /\ args' = [none |-> TRUE]
    /\ opened' = FALSE
    /\ out' = <<>>
    /\ err' = NoError
    /\ ret' = <<>>

Next ==
    \/ CallNodeStrings
    \/ CallSingleCycleExample
    \/ CallTwoCircles
    \/ CallMidiPitchPcTable
    \/ CallGridTatum
    \/ CallSchemaExample
    \/ Return

Spec == Init /\ [][Next]_vars

(***************************************************************************)
(* Reading the result of the last call.                                    *)
(***************************************************************************)
Done(name) == pc = "done" /\ op = name

Succeeded == err.kind = "none"

\* the positions of the written lines of one kind
Positions(kind) == {j \in 1..Len(out) : out[j].t = kind}

Written(kind) == SelectSeq(out, LAMBDA l : l.t = kind)

\* the highlight list has an index outside [0, n)
HasOutside(ks, n) ==
    /\ ~ks.none
    /\ \E j \in 1..Len(ks.v) : ks.v[j] < 0 \/ ks.v[j] >= n

IsIndexError == err.kind = "ValueError" /\ err.msg = "Highlighted index"

IsLabelError == err.kind = "ValueError" /\ err.msg = "pitch class labels"

IsTagsError ==
    err.kind = "ValueError" /\ err.msg = "Tags must be in increasing order"

NothingWritten == ~opened /\ out = <<>>

\* the error names an index of the list ks that is outside [0, n), and n
Names(ks, n) ==
    /\ err.n = n
    /\ \E j \in 1..Len(ks.v) : ks.v[j] = err.k
    /\ (err.k < 0 \/ err.k >= n)

\* every node written with the given radius variable is filled
AllBlack(radius_string, n) ==
    LET ns == SelectSeq(out, LAMBDA l : l.t = "node" /\ l.radius = radius_string)
    IN  /\ Len(ns) = n
        /\ \A j \in 1..n : ns[j].i = j - 1 /\ ns[j].colour = "black"

(***************************************************************************)
(* C1: single_cycle_example with tonality_not_count = True, n # 12 and     *)
(* every highlighted index in [0, n) raises the label-mode error before    *)
(* the output file is opened: no file, no line written.                    *)
(***************************************************************************)
C1_LabelErrorBeforeOpen ==
    (/\ Done("single_cycle_example")
     /\ args.tonality_not_count
     /\ args.n # 12
     /\ ~HasOutside(args.ks, args.n))
        => (IsLabelError /\ NothingWritten)

(***************************************************************************)
(* C2: single_cycle_example raises the index error, naming k and n, iff    *)
(* the highlight list holds an index outside [0, n); two_circles likewise  *)
(* for the inner list against inner_n and the outer list against outer_n;  *)
(* the error comes before the file is opened.  None is never an error and  *)
(* highlights every index.                                                 *)
(***************************************************************************)
C2_IndexErrorIffOutside ==
    /\ Done("single_cycle_example") =>
          /\ IsIndexError <=> HasOutside(args.ks, args.n)
          /\ IsIndexError => (NothingWritten /\ Names(args.ks, args.n))
          /\ (args.ks.none /\ Succeeded) => AllBlack("\\radius", args.n)
    /\ Done("two_circles") =>
          /\ IsIndexError <=> (\/ HasOutside(args.inner_k, args.inner_n)
                               \/ HasOutside(args.outer_k, args.outer_n))
          /\ IsIndexError =>
                /\ NothingWritten
                /\ \/ HasOutside(args.inner_k, args.inner_n)
                         /\ Names(args.inner_k, args.inner_n)
                   \/ ~HasOutside(args.inner_k, args.inner_n)
                         /\ Names(args.outer_k, args.outer_n)
          /\ ~IsIndexError => Succeeded
          /\ (args.inner_k.none /\ Succeeded) => AllBlack("\\innerradius", args.inner_n)
          /\ (args.outer_k.none /\ Succeeded) => AllBlack("\\outerradius", args.outer_n)

C2_Witness ==
    /\ Done("single_cycle_example")
    /\ IsIndexError
    /\ Len(args.ks.v) >= 2
    /\ args.ks.v[1] = 0
    /\ err.k < 0

(***************************************************************************)
(* C3: adjacent-line mode on a non-empty list k_0..k_(m-1) of valid        *)
(* indices writes m segments: k_j to k_(j+1) in list order, then one from  *)
(* the last element back to the first element k_0.                         *)
(***************************************************************************)
C3_AdjacentClosesToFirst ==
    (/\ Done("single_cycle_example")
     /\ Succeeded
     /\ args.lines
     /\ args.adjacent_not_all
     /\ ~args.ks.none
     /\ Len(args.ks.v) > 0)
        => LET ks == args.ks.v
               m  == Len(ks)
               sg == Written("draw_solid")
           IN  /\ Len(sg) = m
               /\ \A j \in 1..(m - 1) : sg[j].from = ks[j] /\ sg[j].to = ks[j + 1]
               /\ sg[m].from = ks[m]
               /\ sg[m].to = ks[1]

(***************************************************************************)
(* C4: for each generator, with include_preamble the lines written have    *)
(* begin-document before the diagram body, end-document as the last line,  *)
(* and every environment the preamble opens is closed; without it neither  *)
(* begin-document nor end-document is written.                             *)
(***************************************************************************)
Generators ==
    {"single_cycle_example", "two_circles", "midi_pitch_pc_table",
     "grid_tatum", "schema_example"}

C4_PreambleWrapsDocument ==
    (pc = "done" /\ op \in Generators /\ Succeeded)
        => IF args.include_preamble
           THEN /\ Cardinality(Positions("begin_document")) = 1
                /\ Cardinality(Positions("end_document")) = 1
                /\ out[Len(out)].t = "end_document"
                /\ \A b \in Positions("begin_document") :
                      \A j \in Positions("begin_tikzpicture")
                               \cup Positions("begin_tabular") : b < j
                /\ Cardinality(Positions("begin_table"))
                      = Cardinality(Positions("end_table"))
           ELSE /\ Positions("begin_document") = {}
                /\ Positions("end_document") = {}

(***************************************************************************)
(* C5: node_strings returns n descriptors, for i = 0..n-1 in increasing    *)
(* order; descriptor i has angle (450 - 360 i / n) mod 360, so index 0 is  *)
(* at 90 and every next index is 360/n further clockwise; its fill is      *)
(* black iff i is highlighted.                                             *)
(***************************************************************************)
\* a is the representative in [0, 360) of the fraction b modulo 360
IsMod360(a, b) ==
    /\ a[2] > 0
    /\ 0 <= a[1]
    /\ a[1] < 360 * a[2]
    /\ \E q \in -2..2 : RatEq(a, <<b[1] - 360 * q * b[2], b[2]>>)

C5_NodeAngles ==
    (Done("node_strings") /\ Succeeded /\ ~HasOutside([none |-> FALSE, v |-> args.ks], args.n))
        => LET n == args.n
           IN  /\ Len(ret) = n
               /\ \A j \in 1..n :
                     LET i == j - 1
                     IN  /\ ret[j].i = i
                         /\ IsMod360(ret[j].angle, <<450 * n - 360 * i, n>>)
                         /\ (i = 0) => RatEq(ret[j].angle, <<90, 1>>)
                         /\ (i > 0) =>
                               IsMod360(ret[j].angle,
                                        RatSub(ret[j - 1].angle, <<360, n>>))
                         /\ ret[j].colour \in {"black", "white"}
                         /\ ret[j].colour = "black"
                               <=> (\E p \in 1..Len(args.ks) : args.ks[p] = i)

C5_Witness ==
    /\ Done("node_strings")
    /\ Succeeded
    /\ args.n = 3
    /\ args.ks = <<2, 0>>
    /\ Len(ret) = 3
    /\ ret[2].angle[1] = 330 * ret[2].angle[2]

(***************************************************************************)
(* C6 as stated: all-pairs mode on a list of m valid indices writes        *)
(* m(m-1)/2 segments, every unordered pair of highlighted points is joined *)
(* by exactly one segment and no segment joins a point to itself.          *)
(***************************************************************************)
AllPairsCall ==
    /\ Done("single_cycle_example")
    /\ Succeeded
    /\ args.lines
    /\ ~args.adjacent_not_all

\* the segments written that join the points a and b
Joining(a, b) ==
    {j \in Positions("draw_solid") : {out[j].from, out[j].to} = {a, b}}

NoRepeats(ks) == \A i, j \in 1..Len(ks) : ks[i] = ks[j] => i = j

EachPairOnce(ks) ==
    /\ \A i, j \in 1..Len(ks) :
          ks[i] # ks[j] => Cardinality(Joining(ks[i], ks[j])) = 1
    /\ \A j \in Positions("draw_solid") : out[j].from # out[j].to

C6_EveryPairOnce ==
    AllPairsCall
        => LET ks == Highlighted(args.ks, args.n)
               m  == Len(ks)
           IN  /\ 2 * Cardinality(Positions("draw_solid")) = m * (m - 1)
               /\ EachPairOnce(ks)

(***************************************************************************)
(* C6 amended: all-pairs mode on a list of m valid indices writes          *)
(* m(m-1)/2 segments; when no index is repeated in the list, every         *)
(* unordered pair of highlighted points is joined by exactly one segment   *)
(* and no segment joins a point to itself.                                 *)
(***************************************************************************)
C6_EveryPairOnceNoRepeats ==
    AllPairsCall
        => LET ks == Highlighted(args.ks, args.n)
               m  == Len(ks)
           IN  /\ 2 * Cardinality(Positions("draw_solid")) = m * (m - 1)
               /\ NoRepeats(ks) => EachPairOnce(ks)

C6_Witness ==
    /\ AllPairsCall
    /\ ~args.ks.none
    /\ Len(args.ks.v) = 3
    /\ NoRepeats(args.ks.v)
    /\ Cardinality(Positions("draw_solid")) = 3

(***************************************************************************)
(* C7: for start_octave < end_octave, midi_pitch_pc_table writes three     *)
(* rows of 12 * (end_octave - start_octave) data cells between a leading   *)
(* and a trailing cell; data cell j is 12 * start_octave + j in the value  *)
(* row, j mod 12 in the class row and the pitch name at j mod 12 in the    *)
(* name row; every row has as many cells as the tabular declares columns.  *)
(***************************************************************************)
\* the cells of a written row, and the number of cells its separators make
Cells(row) == SelectSeq(row.toks, LAMBDA k : k.s = "cell")

CellCount(row) == Cardinality({j \in 1..Len(row.toks) : row.toks[j].s = "sep"}) + 1

\* the int a decimal string denotes; canonical: no leading zero, no "-0"
RECURSIVE DigitsValue(_)
DigitsValue(ds) ==
    IF Len(ds) = 0 THEN 0
    ELSE 10 * DigitsValue(SubSeq(ds, 1, Len(ds) - 1)) + ds[Len(ds)]

Denotes(str, x) ==
    /\ Len(str.digits) >= 1
    /\ \A j \in 1..Len(str.digits) : str.digits[j] \in 0..9
    /\ Len(str.digits) > 1 => str.digits[1] # 0
    /\ str.neg => DigitsValue(str.digits) # 0
    /\ x = (IF str.neg THEN -1 ELSE 1) * DigitsValue(str.digits)

DeclaredColumns ==
    LET ccs == Written("begin_tabular")[1].ccs
    IN  Cardinality({j \in 1..Len(ccs) : ccs[j] = "c"})

RowOf(j) == Cardinality({b \in Positions("row_break") : b < j})

RowRects(k) ==
    LET idx == {j \in Positions("filldraw") : RowOf(j) = k}
    IN  IF idx = {} THEN <<>>
        ELSE LET first == CHOOSE j \in idx : \A o \in idx : j <= o
             IN  [p \in 1..Cardinality(idx) |-> out[first + p - 1]]

RatAdd(a, b) == <<a[1] * b[2] + b[1] * a[2], a[2] * b[2]>>

RECURSIVE WidthSum(_)
WidthSum(rects) ==
    IF Len(rects) = 0 THEN <<0, 1>>
    ELSE RatAdd(WidthSum(Tail(rects)), RatSub(rects[1].x1, rects[1].x0))

Decreases(circles) ==
    \E j \in 1..(Len(circles) - 1) : circles[j].tag > circles[j + 1].tag

C9_TagsErrorIffDecreasing ==
    Done("schema_example")
        => /\ IsTagsError <=> Decreases(args.circles)
           /\ IsTagsError => NothingWritten
           /\ ~IsTagsError => opened

C9_Witness ==
    /\ Done("schema_example")
    /\ IsTagsError
    /\ Len(args.circles) = 3
    /\ args.circles[1].tag = args.circles[2].tag
    /\ args.circles[3].tag < args.circles[2].tag

(***************************************************************************)
(* C10: once the output file is open the call does not fail:               *)
(* single_cycle_example with pitch-class labels off and any list of        *)
(* indices in [0, n), also the empty one, and schema_example with any      *)
(* non-decreasing tags, also none, raise nothing after opening the file    *)
(* and write an end-tikzpicture line matching the begin-tikzpicture line.  *)
(***************************************************************************)
C10_NoFailureAfterOpen ==
    (\/ /\ Done("single_cycle_example")
        /\ ~args.tonality_not_count
        /\ ~HasOutside(args.ks, args.n)
     \/ /\ Done("schema_example")
        /\ ~Decreases(args.circles))
        => /\ opened
           /\ Succeeded
           /\ Cardinality(Positions("begin_tikzpicture")) = 1
           /\ Cardinality(Positions("end_tikzpicture")) = 1
           /\ \A b \in Positions("begin_tikzpicture") :
                 \A e \in Positions("end_tikzpicture") : b < e

====
